---- MODULE Spec2Model ----
(***************************************************************************)
(* A model of stisblazefix.py: fluxcorrect, residcalc, findshift, fluxfix. *)
(*                                                                         *)
(* Numbers.  A numpy floating-point value is a record [k, n, d]: a finite  *)
(* value n/d in lowest terms (k = "fin"), a not-a-number (k = "nan") or an *)
(* infinity of sign n (k = "inf").  The arithmetic is IEEE-754 as numpy    *)
(* applies it with its default error state (divisions by zero warn and     *)
(* give inf or nan), with rounding left out: finite results are exact.     *)
(* The data of the model are non-negative, so no negative zero arises.     *)
(*                                                                         *)
(* Arrays are functions over 0 .. n-1, as numpy indexes them.              *)
(*                                                                         *)
(* Three tokens of the source are not Python (line 55 "badflags = 0", line *)
(* 244 "!iterate", line 255 "iterate=True **kwargs"); the model reads them *)
(* as "==", "not iterate" and "iterate=True, **kwargs".                    *)
(***************************************************************************)
EXTENDS Integers, Sequences, FiniteSets, TLC

(* ------------------------------ bounds -------------------------------- *)
\* most files passed to fluxfix
MaxFiles == 2
\* most table extensions of a file
MaxExt == 2
\* orders of an extension read by fluxfix
ExtOrders == 2
\* largest numeric suffix of an output name that may exist beforehand
MaxTaken == 1
\* the suffix at which the model stops following the retry loop
MaxSuffix == 3
\* most orders of an exposure
MaxOrders == 3
\* pixels of an order
NumPix == 3
\* largest offset of an order's first wavelength, in units of two
MaxStart == 1
\* largest edge trim passed to residcalc
MaxTrim == 1

(* ------------------------------- state -------------------------------- *)
\* residcalc
VARIABLES
    wavelength, flux, err, ntrim,         \* the arguments (flux, err resolved)
    resids, residerr,                     \* the two arrays returned
    order, overlap, i,                    \* loop state
    fluxsum0, fluxsum1, errsum0, errsum1, \* the four sums
    summed,                               \* positions of overlap accumulated for this pair
    wlog,                                 \* the entries stored, in the order stored
    pcR

residVars == <<wavelength, flux, err, ntrim, resids, residerr, order, overlap, i,
               fluxsum0, fluxsum1, errsum0, errsum1, summed, wlog, pcR>>

\* fluxcorrect: arrays live in a heap of objects, so that writing into an
\* argument can be told from building a new array
VARIABLES
    heap,        \* object -> its contents
    caller,      \* the contents of the arguments when the call was made
    origblaze, newblaze, newflux, newerr,   \* the locals: objects, or "none"
    orderC,      \* the local order
    pcC

corrVars == <<heap, caller, origblaze, newblaze, newflux, newerr, orderC, pcC>>

\* findshift
VARIABLES
    guessF, iterateF, nF,    \* the arguments: guess, iterate, np.shape(filedata)[0]
    params,                  \* the lmfit Parameters built, then the fitted ones
    retF,                    \* what findshift returns
    pcF

findVars == <<guessF, iterateF, nF, params, retF, pcF>>

\* fluxfix: the arrays of an extension are held by what they derive from
VARIABLES
    nfiles, guessArg, iterateX,  \* the arguments: len(files), guess, iterate
    dead,        \* every writeto raises OSError (no permission, no such directory)
    guess,       \* the local guess
    fidx,        \* the file of the for loop, 1 .. nfiles; 0 before the first
    extno, iX,   \* the locals extno and i
    filedata,    \* the local filedata: the extension <<f, e>> it refers to
    newcorr,     \* the locals newflux, newerr (one provenance for the two)
    rec,         \* extension <<f, e>> -> what its flux and error columns hold
    computed,    \* extension e of this file -> what fluxcorrect returned for it
    lastcall,    \* the latest findshift call: its arguments and its result
    taken,       \* the suffixes (0: none) under which this file's output exists
    outfile,     \* what writeto wrote for this file
    pcX

fixVars == <<nfiles, guessArg, iterateX, dead, guess, fidx, extno, iX, filedata,
             newcorr, rec, computed, lastcall, taken, outfile, pcX>>

\* what a step of one function leaves alone: the state of the other three
exceptResid == <<corrVars, findVars, fixVars>>

exceptCorr == <<residVars, findVars, fixVars>>

exceptFind == <<residVars, corrVars, fixVars>>

exceptFix == <<residVars, corrVars, findVars>>

(* ----------------------------- numbers -------------------------------- *)
Abs(x) == IF x < 0 THEN 0 - x ELSE x

Sign(x) == IF x < 0 THEN 0 - 1 ELSE IF x > 0 THEN 1 ELSE 0

RECURSIVE GCD(_, _)
GCD(a, b) == IF b = 0 THEN a ELSE GCD(b, a % b)

NaN == [k |-> "nan", n |-> 0, d |-> 0]

Inf(s) == [k |-> "inf", n |-> s, d |-> 0]

\* the finite value n/d, d # 0, in lowest terms with a positive denominator
Fin(n, d) ==
    LET s == Sign(n) * Sign(d)
        g == GCD(Abs(n), Abs(d))
    IN  [k |-> "fin", n |-> s * (Abs(n) \div g), d |-> Abs(d) \div g]

Num(m) == Fin(m, 1)

IsFinite(a) == a.k = "fin"

IsZero(a) == a.k = "fin" /\ a.n = 0

FNeg(a) == IF a.k = "nan" THEN NaN ELSE [a EXCEPT !.n = 0 - a.n]

FAdd(a, b) ==
    IF a.k = "nan" \/ b.k = "nan" THEN NaN
    ELSE IF a.k = "inf" /\ b.k = "inf" THEN (IF a.n = b.n THEN a ELSE NaN)
    ELSE IF a.k = "inf" THEN a
    ELSE IF b.k = "inf" THEN b
    ELSE Fin(a.n * b.d + b.n * a.d, a.d * b.d)

FSub(a, b) == FAdd(a, FNeg(b))

FMul(a, b) ==
    IF a.k = "nan" \/ b.k = "nan" THEN NaN
    ELSE IF a.k = "inf" \/ b.k = "inf"
         THEN (IF a.n = 0 \/ b.n = 0 THEN NaN ELSE Inf(Sign(a.n) * Sign(b.n)))
    ELSE Fin(a.n * b.n, a.d * b.d)

\* numpy's true division of floating-point values: never raises
FDiv(a, b) ==
    IF a.k = "nan" \/ b.k = "nan" THEN NaN
    ELSE IF a.k = "inf" THEN (IF b.k = "inf" THEN NaN
                              ELSE Inf(a.n * (IF b.n < 0 THEN 0 - 1 ELSE 1)))
    ELSE IF b.k = "inf" THEN Num(0)
    ELSE IF b.n = 0 THEN (IF a.n = 0 THEN NaN ELSE Inf(Sign(a.n)))
    ELSE Fin(a.n * b.d, a.d * b.n)

FLess(a, b) == a.k = "fin" /\ b.k = "fin" /\ a.n * b.d < b.n * a.d

FLeq(a, b) == a.k = "fin" /\ b.k = "fin" /\ a.n * b.d <= b.n * a.d

(* ------------------------------ arrays -------------------------------- *)
Size(a) == Cardinality(DOMAIN a)

Zeros(n) == [j \in 0 .. n - 1 |-> Num(0)]

\* scipy.interpolate.interp1d(x, y, fill_value='extrapolate') called at xn:
\* linear, x ascending; searchsorted, clipped to 1 .. len-1, then the line
\* through the two neighbours, with no bounds check
Interp(x, y, xn) ==
    LET idx == Cardinality({j \in DOMAIN x : FLess(x[j], xn)})
        hi  == IF idx < 1 THEN 1 ELSE IF idx > Size(x) - 1 THEN Size(x) - 1 ELSE idx
        lo  == hi - 1
        slope == FDiv(FSub(y[hi], y[lo]), FSub(x[hi], x[lo]))
    IN  FAdd(FMul(slope, FSub(xn, x[lo])), y[lo])

(* ============================ residcalc =============================== *)
\* A sum is [py, v]: py tells a Python int (the literal 0 of line 118) from a
\* numpy floating-point scalar (after += of an array element).
PyZero == [py |-> TRUE, v |-> Num(0)]

Accum(s, x) == [py |-> FALSE, v |-> FAdd(s.v, x)]

\* a / b raises ZeroDivisionError only between two Python numbers
DivRaises(a, b) == a.py /\ b.py /\ IsZero(b.v)

Square(a) == FMul(a, a)

NumOrders == Size(flux)

\* one entry for each order, not for each pair
ResidLenPerOrder(n) == n

\* np.zeros(shape[0] - 1)
ResidLen(n) == n - 1

\* wavelength[order + 1][-1]
LastWave(o) == wavelength[o + 1][Size(wavelength[o + 1]) - 1]

\* the test with < in place of <=
InOverlapStrict(w, last) == FLess(w, last)

\* the test of np.where(wavelength[order] <= wavelength[order + 1][-1])
InOverlap(w, last) == FLeq(w, last)

\* np.where(...): the pixels that pass the test, ascending
Overlap(o) ==
    LET S == {p \in DOMAIN wavelength[o] : InOverlap(wavelength[o][p], LastWave(o))}
    IN  [k \in 0 .. Cardinality(S) - 1 |->
            CHOOSE p \in S : Cardinality({q \in S : q < p}) = k]

\* the guard of the summation loop, line 122
SumGuard(j, L, t) == j < L - t

\* f0, f1, g0, g1 of lines 114-117 at position j of overlap, for pair (o, o+1)
F0(o, j) == flux[o][overlap[j]]

F1(o, j) == Interp(wavelength[o + 1], flux[o + 1], wavelength[o][overlap[j]])

G0(o, j) == err[o][overlap[j]]

G1(o, j) == Interp(wavelength[o + 1], err[o + 1], wavelength[o][overlap[j]])

\* lines 128-133.  residerr is non-negative (abs times sqrt), and is held as its
\* square, which np.sqrt makes exact to state: 1 is held as 1.
TryRaises ==
    \/ DivRaises(fluxsum0, fluxsum1)
    \/ DivRaises(errsum0, [fluxsum0 EXCEPT !.v = Square(fluxsum0.v)])
    \/ DivRaises(errsum1, [fluxsum1 EXCEPT !.v = Square(fluxsum1.v)])

Resid == IF TryRaises THEN Num(0)
         ELSE FSub(Num(1), FDiv(fluxsum0.v, fluxsum1.v))

ResidErrSq ==
    IF TryRaises THEN Num(1)
    ELSE FMul(Square(FSub(Num(1), Resid)),
              FAdd(FDiv(errsum0.v, Square(fluxsum0.v)),
                   FDiv(errsum1.v, Square(fluxsum1.v))))

\* the rows the exposures are drawn from: wavelengths ascending within an order
\* (the x1d format), alternate orders with dispersion 2 and 1
WaveRow(s, o) == [p \in 0 .. NumPix - 1 |-> Num(2 * s + p * (2 - (o % 2)))]

FluxRows == { [p \in 0 .. NumPix - 1 |-> Num(0)],
              [p \in 0 .. NumPix - 1 |-> Num(p + 1)],
              [p \in 0 .. NumPix - 1 |-> Num(IF p = NumPix - 1 THEN 2 ELSE 0)] }

ErrRow == [p \in 0 .. NumPix - 1 |-> Num(1 + (p % 2))]

InitResid ==
    /\ \E n \in 1 .. MaxOrders :
         /\ \E st \in [0 .. n - 1 -> 0 .. MaxStart] :
                wavelength = [o \in 0 .. n - 1 |-> WaveRow(st[o], o)]
         /\ flux \in [0 .. n - 1 -> FluxRows]
         /\ err = [o \in 0 .. n - 1 |-> ErrRow]
    /\ ntrim \in 0 .. MaxTrim
    /\ resids = <<>>
    /\ residerr = <<>>
    /\ order = 0
    /\ overlap = <<>>
    /\ i = 0
    /\ fluxsum0 = PyZero /\ fluxsum1 = PyZero
    /\ errsum0 = PyZero /\ errsum1 = PyZero
    /\ summed = <<>>
    /\ wlog = <<>>
    /\ pcR = "start"

\* lines 104-107
ResidBegin ==
    /\ pcR = "start"
    /\ resids' = Zeros(ResidLen(NumOrders))
    /\ residerr' = Zeros(Size(resids'))
    /\ order' = 0
    /\ pcR' = "loop"
    /\ UNCHANGED <<wavelength, flux, err, ntrim, overlap, i,
                   fluxsum0, fluxsum1, errsum0, errsum1, summed, wlog>>
    /\ UNCHANGED exceptResid

\* lines 108-121: the pair (order, order+1) begins
ResidPair ==
    /\ pcR = "loop"
    /\ order < NumOrders - 1
    /\ overlap' = Overlap(order)
    /\ fluxsum0' = PyZero /\ fluxsum1' = PyZero
    /\ errsum0' = PyZero /\ errsum1' = PyZero
    /\ i' = ntrim
    /\ summed' = <<>>
    /\ pcR' = "sum"
    /\ UNCHANGED <<wavelength, flux, err, ntrim, resids, residerr, order, wlog>>
    /\ UNCHANGED exceptResid

\* lines 122-127: one pass of the summation loop
ResidSum ==
    /\ pcR = "sum"
    /\ SumGuard(i, Size(overlap), ntrim)
    /\ fluxsum0' = Accum(fluxsum0, F0(order, i))
    /\ fluxsum1' = Accum(fluxsum1, F1(order, i))
    /\ errsum0' = Accum(errsum0, Square(G0(order, i)))
    /\ errsum1' = Accum(errsum1, Square(G1(order, i)))
    /\ summed' = Append(summed, i)
    /\ i' = i + 1
    /\ UNCHANGED <<wavelength, flux, err, ntrim, resids, residerr, order, overlap,
                   wlog, pcR>>
    /\ UNCHANGED exceptResid

\* lines 128-135: the ratio, its fallback, the two stores, the next order
ResidStore ==
    /\ pcR = "sum"
    /\ ~SumGuard(i, Size(overlap), ntrim)
    /\ residerr' = [residerr EXCEPT ![order] = ResidErrSq]
    /\ resids' = [resids EXCEPT ![order] = Resid]
    /\ wlog' = Append(wlog, order)
    /\ order' = order + 1
    /\ pcR' = "loop"
    /\ UNCHANGED <<wavelength, flux, err, ntrim, overlap, i,
                   fluxsum0, fluxsum1, errsum0, errsum1, summed>>
    /\ UNCHANGED exceptResid

\* line 136
ResidReturn ==
    /\ pcR = "loop"
    /\ ~(order < NumOrders - 1)
    /\ pcR' = "done"
    /\ UNCHANGED <<wavelength, flux, err, ntrim, resids, residerr, order, overlap, i,
                   fluxsum0, fluxsum1, errsum0, errsum1, summed, wlog>>
    /\ UNCHANGED exceptResid

NextResid == ResidBegin \/ ResidPair \/ ResidSum \/ ResidStore \/ ResidReturn

(* ----------------------- residcalc: properties ------------------------ *)
\* the largest wavelength of order o
MaxWave(o) ==
    CHOOSE w \in {wavelength[o][p] : p \in DOMAIN wavelength[o]} :
        \A p \in DOMAIN wavelength[o] : FLeq(wavelength[o][p], w)

\* the positions of an overlap of size L that the trim t keeps
Kept(L, t) == {k \in 0 .. L - 1 : t <= k /\ k < L - t}

\* the ascending enumeration of a finite set of integers
Ascending(S) ==
    [k \in 1 .. Cardinality(S) |-> CHOOSE p \in S : Cardinality({q \in S : q < p}) = k - 1]

RECURSIVE SumOver(_, _)
SumOver(S, f) ==
    IF S = {} THEN Num(0)
    ELSE LET k == CHOOSE k \in S : TRUE
         IN  FAdd(f[k], SumOver(S \ {k}, f))

\* the pair whose summation loop has ended and whose entries are stored
AfterPair == pcR \in {"loop", "done"} /\ order > 0

\* the four sums of pair (o, o+1) over the kept positions of its overlap
RefSums(o) ==
    LET K == Kept(Size(overlap), ntrim)
    IN  [f0 |-> SumOver(K, [k \in K |-> F0(o, k)]),
         f1 |-> SumOver(K, [k \in K |-> F1(o, k)]),
         e0 |-> SumOver(K, [k \in K |-> Square(G0(o, k))]),
         e1 |-> SumOver(K, [k \in K |-> Square(G1(o, k))])]

\* C3: after allocation resids and residerr both have N-1 entries; the stores
\* made so far are those of entries 0, 1, ..., order-1, one store each, in
\* ascending order, entry k holding the residual of the pair (k, k+1), whose
\* sums are still at hand right after its store; at return every entry is stored.
C3_LengthAndOrder ==
    pcR # "start" =>
        /\ Size(resids) = NumOrders - 1
        /\ Size(residerr) = Size(resids)
        /\ DOMAIN resids = 0 .. NumOrders - 2
        /\ wlog = [j \in 1 .. order |-> j - 1]
        /\ order <= NumOrders - 1
        /\ (pcR = "done" => order = NumOrders - 1)
        /\ (AfterPair =>
               /\ fluxsum0.v = RefSums(order - 1).f0
               /\ fluxsum1.v = RefSums(order - 1).f1
               /\ resids[order - 1] = Resid)

C3_Witness ==
    pcR = "done" /\ NumOrders = 3 /\ Len(wlog) = 2 /\ IsFinite(resids[1])

\* C10: the overlap of pair (order, order+1) is exactly the pixels of order whose
\* wavelength is <= the largest wavelength of order+1; the positions summed are
\* exactly ntrim .. L-ntrim-1, each once, ascending; the four sums are the sums
\* over those positions; nothing is summed when L <= 2*ntrim.
C10_TrimmedOverlap ==
    /\ pcR = "sum" =>
          /\ {overlap[k] : k \in DOMAIN overlap}
               = {p \in 0 .. NumPix - 1 :
                     FLeq(wavelength[order][p], MaxWave(order + 1))}
          /\ \A k \in DOMAIN overlap : \A j \in DOMAIN overlap :
                 k < j => overlap[k] < overlap[j]
          /\ summed = [j \in 1 .. Len(summed) |-> ntrim + j - 1]
    /\ AfterPair =>
          LET L == Size(overlap)
              R == RefSums(order - 1)
          IN  /\ summed = Ascending(Kept(L, ntrim))
              /\ fluxsum0.v = R.f0 /\ fluxsum1.v = R.f1
              /\ errsum0.v = R.e0 /\ errsum1.v = R.e1
              /\ (L <= 2 * ntrim => summed = <<>> /\ fluxsum0 = PyZero /\ errsum1 = PyZero)

C10_Witness ==
    /\ AfterPair /\ ntrim = 1 /\ Size(overlap) = 3 /\ summed = <<1>>
    /\ ~IsZero(fluxsum0.v)

\* C2: a pair whose flux is all zero over the kept overlap positions, in both
\* orders, has residual 0 and residual-error 1.
C2_ZeroFallback ==
    (/\ AfterPair
     /\ \A k \in Kept(Size(overlap), ntrim) :
            IsZero(F0(order - 1, k)) /\ IsZero(F1(order - 1, k)))
    => /\ resids[order - 1] = Num(0)
       /\ residerr[order - 1] = Num(1)

(* =========================== fluxcorrect ============================== *)
\* filedata[col] and pixshift: the objects the caller passed
Columns == {"wavelength", "net", "flux", "error", "net_error"}

Arguments == Columns \cup {"pixshift"}

\* a division that writes the quotient into its first operand
DivideInPlace(a, b, fresh) == a

\* np.divide(a, b): the object that receives the quotient is a new one

DivideOut(a, b, fresh) == fresh

\* np.divide on 2-D arrays, elementwise
Divide2(A, B) == [o \in DOMAIN A |-> [p \in DOMAIN A[o] |-> FDiv(A[o][p], B[o][p])]]

\* np.arange(shape[1])
Pixnos(n) == [p \in 0 .. n - 1 |-> Num(p)]

\* line 77-78: the blaze of one order, shifted by sh pixels
ShiftRow(row, sh) ==
    [p \in DOMAIN row |-> Interp(Pixnos(Size(row)), row, FSub(Num(p), sh))]

NetRows == { [p \in 0 .. NumPix - 1 |-> Num(p + 1)],
             [p \in 0 .. NumPix - 1 |-> Num(p)] }

CalRows == { [p \in 0 .. NumPix - 1 |-> Num(2)],
             [p \in 0 .. NumPix - 1 |-> Num(p + 1)],
             [p \in 0 .. NumPix - 1 |-> Num(IF p = 1 THEN 0 ELSE 3)] }

\* pixel shifts, linear in the relative order as residfunc and findshift make them
ShiftVectors(n) == { [o \in 0 .. n - 1 |-> Num(0)],
                     [o \in 0 .. n - 1 |-> Num(1)],
                     [o \in 0 .. n - 1 |-> Fin(o - 1, 2)] }

\* the error that the calibration gives: net_error * flux / net, 0 where undefined
CalError(net, flx, nerr) ==
    [o \in DOMAIN net |-> [p \in DOMAIN net[o] |->
        LET e == FDiv(FMul(nerr[o][p], flx[o][p]), net[o][p])
        IN  IF IsFinite(e) THEN e ELSE Num(0)]]

InitCorr ==
    /\ \E n \in 1 .. MaxOrders :
       \E net \in [0 .. n - 1 -> NetRows] :
       \E flx \in [0 .. n - 1 -> CalRows] :
       \E sh \in ShiftVectors(n) :
         LET nerr == [o \in 0 .. n - 1 |-> [p \in 0 .. NumPix - 1 |-> Num(1)]]
         IN  heap = [a \in Arguments |->
                       CASE a = "wavelength" -> [o \in 0 .. n - 1 |-> WaveRow(0, o)]
                         [] a = "net" -> net
                         [] a = "flux" -> flx
                         [] a = "error" -> CalError(net, flx, nerr)
                         [] a = "net_error" -> nerr
                         [] OTHER -> sh]
    /\ caller = heap
    /\ origblaze = "none" /\ newblaze = "none"
    /\ newflux = "none" /\ newerr = "none"
    /\ orderC = 0
    /\ pcC = "start"

\* lines 71-75
CorrBegin ==
    /\ pcC = "start"
    /\ LET ob == DivideOut("net", "flux", "origblaze")
           h1 == (ob :> Divide2(heap["net"], heap["flux"])) @@ heap
       IN  /\ origblaze' = ob
           /\ newblaze' = "newblaze"
           /\ heap' = ("newblaze" :> [o \in DOMAIN h1[ob] |-> Zeros(Size(h1[ob][o]))]) @@ h1
    /\ orderC' = 0
    /\ pcC' = "loop"
    /\ UNCHANGED <<caller, newflux, newerr>>
    /\ UNCHANGED exceptCorr

\* lines 76-79: one order
CorrOrder ==
    /\ pcC = "loop"
    /\ orderC < Size(heap[origblaze])
    /\ heap' = [heap EXCEPT ![newblaze][orderC] =
                   ShiftRow(heap[origblaze][orderC], heap["pixshift"][orderC])]
    /\ orderC' = orderC + 1
    /\ UNCHANGED <<caller, origblaze, newblaze, newflux, newerr, pcC>>
    /\ UNCHANGED exceptCorr

\* lines 80-82
CorrReturn ==
    /\ pcC = "loop"
    /\ ~(orderC < Size(heap[origblaze]))
    /\ LET nf == DivideOut("net", newblaze, "newflux")
           h1 == (nf :> Divide2(heap["net"], heap[newblaze])) @@ heap
           ne == DivideOut("net_error", newblaze, "newerr")
           h2 == (ne :> Divide2(h1["net_error"], h1[newblaze])) @@ h1
       IN  /\ newflux' = nf
           /\ newerr' = ne
           /\ heap' = h2
    /\ pcC' = "done"
    /\ UNCHANGED <<caller, origblaze, newblaze, orderC>>
    /\ UNCHANGED exceptCorr

NextCorr == CorrBegin \/ CorrOrder \/ CorrReturn

(* ---------------------- fluxcorrect: properties ----------------------- *)
SameShape(A, B) ==
    /\ DOMAIN A = DOMAIN B
    /\ \A o \in DOMAIN A : DOMAIN A[o] = DOMAIN B[o]

ZeroShift == \A o \in DOMAIN caller["pixshift"] : IsZero(caller["pixshift"][o])

\* C4: with a shift of zero for every order, the arrays returned are the
\* exposure's flux and error arrays.
C4_RoundTrip ==
    (pcC = "done" /\ ZeroShift) =>
        /\ heap[newflux] = caller["flux"]
        /\ heap[newerr] = caller["error"]

\* C5: every array of the caller's record and the caller's shift vector hold
\* what they held when the call was made, and the two arrays returned have the
\* shape of the flux array.
C5_NoMutation ==
    /\ \A a \in Arguments : heap[a] = caller[a]
    /\ pcC = "done" =>
          /\ SameShape(heap[newflux], caller["flux"])
          /\ SameShape(heap[newerr], caller["flux"])

C5_Witness ==
    /\ pcC = "done" /\ Size(caller["flux"]) = 2 /\ ~ZeroShift
    /\ heap[newflux] # caller["flux"]
    /\ \E o \in DOMAIN heap[newflux] : \A p \in DOMAIN heap[newflux][o] :
           IsFinite(heap[newflux][o][p])

(* ============================= findshift ============================== *)
\* Python's None, where a number may stand
None == [k |-> "none", n |-> 0, d |-> 0]

\* line 244-245: a parameter varies unless iterate is false
VaryFlag(it) == it

\* lines 241-245: Parameters(); add('a'); add('b'); a new Parameter has no stderr
SetupParams(gs, it) ==
    [a |-> [value |-> gs[1], vary |-> VaryFlag(it), stderr |-> None],
     b |-> [value |-> gs[2], vary |-> VaryFlag(it), stderr |-> None]]

\* where a fit may end, and the standard error it may report
FitPoints == { <<Num(0), Num(0)>>, <<Num(2), Num(1)>> }

\* line 246, lmfit.minimize.  With no parameter varying the values stay and the
\* standard errors are left undefined (None) or set to 0, as the lmfit release
\* has it.  Otherwise the fit ends at some point, with standard errors, or with
\* None when lmfit could not estimate the covariance.
Minimize(ps) ==
    IF ~ps.a.vary /\ ~ps.b.vary
    THEN { [a |-> [ps.a EXCEPT !.stderr = e], b |-> [ps.b EXCEPT !.stderr = e]] :
             e \in {None, Num(0)} }
    ELSE { [a |-> [ps.a EXCEPT !.value = pt[1], !.stderr = e],
            b |-> [ps.b EXCEPT !.value = pt[2], !.stderr = e]] :
             pt \in FitPoints, e \in {None, Fin(1, 2)} }

\* line 250: a[0] + b[0]*x for x = np.arange(n)
PixShift(a, b, n) == [x \in 0 .. n - 1 |-> FAdd(a, FMul(b, Num(x)))]

\* line 251: np.sqrt(a[1]**2 + (x*b[1])**2), non-negative, held as its square
PixErrSq(ea, eb, n) ==
    [x \in 0 .. n - 1 |-> FAdd(Square(ea), Square(FMul(Num(x), eb)))]

\* lines 248-252.  None ** 2 raises TypeError.
Expand(res, n) ==
    IF res.a.stderr = None \/ res.b.stderr = None
    THEN [raised |-> TRUE, pixshift |-> <<>>, pixerr |-> <<>>,
          a |-> res.a.value, b |-> res.b.value]
    ELSE [raised |-> FALSE,
          pixshift |-> PixShift(res.a.value, res.b.value, n),
          pixerr |-> PixErrSq(res.a.stderr, res.b.stderr, n),
          a |-> res.a.value, b |-> res.b.value]

\* every way a call findshift(filedata, guess, iterate) may end
Findshift(n, gs, it) ==
    {Expand(res, n) : res \in Minimize(SetupParams(gs, it))}

\* fluxfix's default, line 271
DefaultGuess == <<Num(1), Fin(1, 2)>>

Guesses == { DefaultGuess, <<Num(0), Num(1)>>, <<Num(2), Num(0)>> }

NoParams == [a |-> [value |-> None, vary |-> FALSE, stderr |-> None],
             b |-> [value |-> None, vary |-> FALSE, stderr |-> None]]

NoReturn == [raised |-> FALSE, pixshift |-> <<>>, pixerr |-> <<>>, a |-> None, b |-> None]

InitFind ==
    /\ guessF \in Guesses
    /\ iterateF \in BOOLEAN
    /\ nF \in 1 .. MaxOrders
    /\ params = NoParams
    /\ retF = NoReturn
    /\ pcF = "start"

\* lines 240-245
FindSetup ==
    /\ pcF = "start"
    /\ params' = SetupParams(guessF, iterateF)
    /\ pcF' = "minimize"
    /\ UNCHANGED <<guessF, iterateF, nF, retF>>
    /\ UNCHANGED exceptFind

\* line 246
FindMinimize ==
    /\ pcF = "minimize"
    /\ params' \in Minimize(params)
    /\ pcF' = "expand"
    /\ UNCHANGED <<guessF, iterateF, nF, retF>>
    /\ UNCHANGED exceptFind

\* lines 248-252
FindExpand ==
    /\ pcF = "expand"
    /\ retF' = Expand(params, nF)
    /\ pcF' = IF retF'.raised THEN "raised" ELSE "returned"
    /\ UNCHANGED <<guessF, iterateF, nF, params>>
    /\ UNCHANGED exceptFind

NextFind == FindSetup \/ FindMinimize \/ FindExpand

(* ----------------------- findshift: properties ------------------------ *)
\* C1: with iterate false the call returns, with (a, b) the guess and the
\* shift vector a0 + b0*k for every relative order k, whatever the standard errors.
C1_FixedGuess ==
    (pcF \in {"returned", "raised"} /\ ~iterateF) =>
        /\ pcF = "returned"
        /\ <<retF.a, retF.b>> = guessF
        /\ retF.pixshift = [k \in 0 .. nF - 1 |-> FAdd(guessF[1], FMul(guessF[2], Num(k)))]
        /\ DOMAIN retF.pixerr = 0 .. nF - 1

(* ============================== fluxfix =============================== *)
\* What an extension's flux and error columns hold is named by what it derives
\* from: the original columns of extension e of file f, or fluxcorrect's result
\* on that extension's data with a shift vector.
Unbound == <<0, 0>>

Orig(f, e) == [kind |-> "orig", f |-> f, e |-> e, shift |-> <<>>]

Corrected(f, e, shift) == [kind |-> "corr", f |-> f, e |-> e, shift |-> shift]

NoArrays == [kind |-> "unbound", f |-> 0, e |-> 0, shift |-> <<>>]

NoCall == [made |-> FALSE, f |-> 0, e |-> 0, guess |-> <<None, None>>,
           iterate |-> FALSE, a |-> None, b |-> None, pixshift |-> <<>>]

NoOutput == [written |-> FALSE, suffix |-> 0, data |-> <<>>]

\* a call that starts from the latest fit's parameters
GuessFromPrevious(g, prev) == IF prev.made THEN <<prev.a, prev.b>> ELSE g

\* line 279, findshift(filedata, guess): the guess passed; prev is the latest fit
CallGuess(g, prev) == g

\* line 279: iterate is not passed, so findshift's default holds
CallIterate(it) == TRUE

\* file.writeto(name) raises OSError when the name exists, or for any other
\* failure of the file system
CanWrite(suffix) == ~dead /\ suffix \notin taken

\* the extensions of file f that are alive: HDU 1 .. n-1
Exts(f, n) == {<<f, e>> : e \in 1 .. n - 1}

\* what an HDUList of n HDUs holds in its table extensions
Snapshot(f, n) == [e \in 1 .. n - 1 |-> rec[<<f, e>>]]

InitFix ==
    /\ nfiles \in 1 .. MaxFiles
    /\ guessArg \in {<<None, None>>, <<Num(0), Num(1)>>}
    /\ iterateX \in BOOLEAN
    /\ dead \in BOOLEAN
    /\ guess = <<None, None>>
    /\ fidx = 0
    /\ extno = 0
    /\ iX = 0
    /\ filedata = Unbound
    /\ newcorr = NoArrays
    /\ rec = <<>>
    /\ computed = <<>>
    /\ lastcall = NoCall
    /\ taken = {}
    /\ outfile = NoOutput
    /\ pcX = "start"

\* lines 270-272
FixBegin ==
    /\ pcX = "start"
    /\ guess' = IF guessArg = <<None, None>> THEN DefaultGuess ELSE guessArg
    /\ pcX' = "file"
    /\ UNCHANGED <<nfiles, guessArg, iterateX, dead, fidx, extno, iX, filedata,
                   newcorr, rec, computed, lastcall, taken, outfile>>
    /\ UNCHANGED exceptFix

\* lines 273-276: the next file is opened; what filedata refers to stays alive
FixOpen ==
    /\ pcX = "file"
    /\ fidx < nfiles
    /\ fidx' = fidx + 1
    /\ \E n \in 1 .. MaxExt + 1 :
         /\ extno' = n
         /\ rec' = [r \in Exts(fidx', n) \cup ({filedata} \ {Unbound}) |->
                       IF r[1] = fidx' THEN Orig(r[1], r[2]) ELSE rec[r]]
    /\ iX' = 1
    /\ computed' = <<>>
    /\ outfile' = NoOutput
    /\ taken' = {}
    /\ pcX' = "ext"
    /\ UNCHANGED <<nfiles, guessArg, iterateX, dead, guess, filedata, newcorr, lastcall>>
    /\ UNCHANGED exceptFix

\* lines 277-287: one extension is fitted and corrected
FixExt ==
    /\ pcX = "ext"
    /\ iX < extno
    /\ filedata' = <<fidx, iX>>
    /\ LET g == CallGuess(guess, lastcall)
           it == CallIterate(iterateX)
       IN  \E r \in Findshift(ExtOrders, g, it) :
             /\ lastcall' = [made |-> TRUE, f |-> fidx, e |-> iX, guess |-> g,
                             iterate |-> it, a |-> r.a, b |-> r.b,
                             pixshift |-> r.pixshift]
             /\ IF r.raised
                THEN /\ pcX' = "raised"
                     /\ UNCHANGED <<newcorr, computed, iX>>
                ELSE /\ newcorr' = Corrected(fidx, iX, r.pixshift)
                     /\ computed' = (iX :> newcorr') @@ computed
                     /\ iX' = iX + 1
                     /\ pcX' = "ext"
    /\ UNCHANGED <<nfiles, guessArg, iterateX, dead, guess, fidx, extno, rec, taken,
                   outfile>>
    /\ UNCHANGED exceptFix

\* lines 288-291: the header comment, then the two column assignments; the name
\* filedata is not bound when no file so far had a table extension (NameError)
FixAssign ==
    /\ pcX = "ext"
    /\ ~(iX < extno)
    /\ IF filedata = Unbound
       THEN /\ pcX' = "raised"
            /\ UNCHANGED <<rec, taken>>
       ELSE /\ rec' = [rec EXCEPT ![filedata] = newcorr]
            /\ taken' \in SUBSET (0 .. MaxTaken)
            /\ pcX' = "write"
    /\ UNCHANGED <<nfiles, guessArg, iterateX, dead, guess, fidx, extno, iX, filedata,
                   newcorr, computed, lastcall, outfile>>
    /\ UNCHANGED exceptFix

\* lines 292-295: the base name
FixWrite ==
    /\ pcX = "write"
    /\ IF CanWrite(0)
       THEN /\ outfile' = [written |-> TRUE, suffix |-> 0, data |-> Snapshot(fidx, extno)]
            /\ pcX' = "close"
            /\ UNCHANGED iX
       ELSE /\ iX' = 1
            /\ pcX' = "retry"
            /\ UNCHANGED outfile
    /\ UNCHANGED <<nfiles, guessArg, iterateX, dead, guess, fidx, extno, filedata,
                   newcorr, rec, computed, lastcall, taken>>
    /\ UNCHANGED exceptFix

\* lines 296-301: one pass of the retry loop
FixRetry ==
    /\ pcX = "retry"
    /\ IF CanWrite(iX)
       THEN /\ outfile' = [written |-> TRUE, suffix |-> iX, data |-> Snapshot(fidx, extno)]
            /\ pcX' = "close"
            /\ UNCHANGED iX
       ELSE /\ iX < MaxSuffix
            /\ iX' = iX + 1
            /\ UNCHANGED <<outfile, pcX>>
    /\ UNCHANGED <<nfiles, guessArg, iterateX, dead, guess, fidx, extno, filedata,
                   newcorr, rec, computed, lastcall, taken>>
    /\ UNCHANGED exceptFix

\* line 302
FixClose ==
    /\ pcX = "close"
    /\ pcX' = "file"
    /\ UNCHANGED <<nfiles, guessArg, iterateX, dead, guess, fidx, extno, iX, filedata,
                   newcorr, rec, computed, lastcall, taken, outfile>>
    /\ UNCHANGED exceptFix

\* line 303
FixEnd ==
    /\ pcX = "file"
    /\ ~(fidx < nfiles)
    /\ pcX' = "done"
    /\ UNCHANGED <<nfiles, guessArg, iterateX, dead, guess, fidx, extno, iX, filedata,
                   newcorr, rec, computed, lastcall, taken, outfile>>
    /\ UNCHANGED exceptFix

NextFix == FixBegin \/ FixOpen \/ FixExt \/ FixAssign \/ FixWrite \/ FixRetry
           \/ FixClose \/ FixEnd

(* ========================== specifications ============================ *)
vars == <<residVars, corrVars, findVars, fixVars>>

\* a function not under study has not been called
IdleResid ==
    /\ wavelength = <<>> /\ flux = <<>> /\ err = <<>> /\ ntrim = 0
    /\ resids = <<>> /\ residerr = <<>> /\ order = 0 /\ overlap = <<>> /\ i = 0
    /\ fluxsum0 = PyZero /\ fluxsum1 = PyZero /\ errsum0 = PyZero /\ errsum1 = PyZero
    /\ summed = <<>> /\ wlog = <<>> /\ pcR = "idle"

IdleCorr ==
    /\ heap = <<>> /\ caller = <<>>
    /\ origblaze = "none" /\ newblaze = "none" /\ newflux = "none" /\ newerr = "none"
    /\ orderC = 0 /\ pcC = "idle"

IdleFind ==
    /\ guessF = DefaultGuess /\ iterateF = TRUE /\ nF = 0
    /\ params = NoParams /\ retF = NoReturn /\ pcF = "idle"

IdleFix ==
    /\ nfiles = 0 /\ guessArg = <<None, None>> /\ iterateX = TRUE /\ dead = FALSE
    /\ guess = <<None, None>> /\ fidx = 0 /\ extno = 0 /\ iX = 0
    /\ filedata = Unbound /\ newcorr = NoArrays /\ rec = <<>> /\ computed = <<>>
    /\ lastcall = NoCall /\ taken = {} /\ outfile = NoOutput /\ pcX = "idle"

\* a call of residcalc
StartResid == InitResid /\ IdleCorr /\ IdleFind /\ IdleFix

SpecResid == StartResid /\ [][NextResid]_vars

\* a call of fluxcorrect
StartCorr == IdleResid /\ InitCorr /\ IdleFind /\ IdleFix

SpecCorr == StartCorr /\ [][NextCorr]_vars

\* a call of findshift
StartFind == IdleResid /\ IdleCorr /\ InitFind /\ IdleFix

SpecFind == StartFind /\ [][NextFind]_vars

\* a call of fluxfix
StartFix == IdleResid /\ IdleCorr /\ IdleFind /\ InitFix

SpecFix == StartFix /\ [][NextFix]_vars

(* ------------------------ fluxfix: properties ------------------------- *)
\* the shift vector that the guess alone gives
GuessShift(gs, n) == [k \in 0 .. n - 1 |-> FAdd(gs[1], FMul(gs[2], Num(k)))]

\* C6: when fluxfix is called with iterate false, every findshift call it makes
\* holds the parameters at the guess, and the shift applied is
\* guess[0] + guess[1]*k.
C6_IterateGoverns ==
    (lastcall.made /\ ~iterateX) =>
        /\ lastcall.iterate = FALSE
        /\ (pcX # "raised" => lastcall.pixshift = GuessShift(guess, ExtOrders))

\* C7: the record written for a file holds, in every table extension, the
\* arrays that fluxcorrect returned for that extension.
C7_EveryExtensionCorrected ==
    outfile.written =>
        \A e \in 1 .. extno - 1 :
            /\ e \in DOMAIN computed
            /\ outfile.data[e] = computed[e]

\* C8: every findshift call starts from the guess given to fluxfix (its default
\* when none is given), and corrected arrays held by an extension of a file, in
\* memory or written out, derive from that file's own extension data.
C8_Independent ==
    /\ lastcall.made =>
          lastcall.guess = (IF guessArg = <<None, None>> THEN DefaultGuess ELSE guessArg)
    /\ \A r \in DOMAIN rec : rec[r].kind \in {"orig", "corr"} /\ rec[r].f = r[1]
    /\ outfile.written =>
          \A e \in DOMAIN outfile.data : outfile.data[e].f = fidx

\* a file with no table extension is written after an earlier file with two
C8_Witness ==
    /\ outfile.written /\ fidx = 2 /\ extno = 1
    /\ filedata = <<1, 2>> /\ lastcall.f = 1 /\ lastcall.e = 2
    /\ rec[filedata].kind = "corr"

\* C9: the retry loop ends: while it runs, some suffix not yet tried can be
\* written, and the suffixes tried are 1, 2, 3, ... up to the first such one.
C9_RetryEnds ==
    pcX = "retry" =>
        /\ iX >= 1
        /\ \A sfx \in 1 .. iX - 1 : ~CanWrite(sfx)
        /\ \E sfx \in iX .. MaxSuffix : CanWrite(sfx)

====
